---- MODULE Spec2Model ----
(***************************************************************************)
(* PeaceNames POC backend (src/backend/app.py): the tag assignment write   *)
(* path (assign_tags), the AND-filter file listing (get_files) and the     *)
(* C-Grid navigation counts (cgrid_navigate), over the relational store    *)
(* (tables users, dimensions, tags, files, file_tags).                     *)
(*                                                                         *)
(* The store's only table written by these handlers is file_tags; users,   *)
(* dimensions, tags and files are seed / upload data the handlers read.    *)
(* Every action is one whole HTTP request; it records the request and the  *)
(* JSON response in resp, and the file_tags table as it was when the       *)
(* request arrived in before.  Of a listing response the model keeps the   *)
(* ids of the listed files, in order; of a navigate response the counts    *)
(* and flags per tag id, the parsed selection and the total.               *)
(*                                                                         *)
(* For two assign_tags requests running at once (each on its own pooled    *)
(* connection) the handler is also given statement by statement: conn      *)
(* holds, per client, the request and the statement it has reached.        *)
(***************************************************************************)
EXTENDS Integers, Sequences, FiniteSets, TLC

VARIABLES
    file_tags,  \* table file_tags: set of rows [file_id, tag_id, assigned_by, assigned_at]
    now,        \* the store's CURRENT_TIMESTAMP
    before,     \* file_tags when the last request arrived
    resp,       \* the last request with its response
    conn        \* per client: the assign_tags request in progress and how far it is

vars == <<file_tags, now, before, resp, conn>>

(***************************************************************************)
(* Bounds of the exploration.                                              *)
(***************************************************************************)
MaxTokens == 2      \* comma-separated fields of a ?tags= string
MaxTagIds == 2      \* length of a JSON tag_ids list
MaxRows == 4        \* rows of file_tags
MaxNow == 1         \* ticks of the store's clock
MaxClockedRows == 2 \* rows of file_tags in the runs where the clock ticks
MaxConcTagIds == 1  \* length of a tag_ids list of a request running beside another

(***************************************************************************)
(* Seed data.  No handler of app.py writes users, dimensions or tags;      *)
(* files are written by upload_file only, which is outside this model.     *)
(***************************************************************************)
Users == {1, 2}

Dimensions == {[id |-> 1, display_order |-> 1], [id |-> 2, display_order |-> 2]}

\* tags 1 and 2 are active, tag 3 is soft-deleted (is_active = FALSE).
Tags ==
    { [id |-> 1, dimension_id |-> 1, is_active |-> TRUE],
      [id |-> 2, dimension_id |-> 2, is_active |-> TRUE],
      [id |-> 3, dimension_id |-> 2, is_active |-> FALSE] }

\* files 1, 2 belong to user 1 (equal created_at), file 3 to user 2.
Files ==
    { [id |-> 1, user_id |-> 1, created_at |-> 1],
      [id |-> 2, user_id |-> 1, created_at |-> 1],
      [id |-> 3, user_id |-> 2, created_at |-> 2] }

TagIds == {t.id : t \in Tags}
FileIds == {f.id : f \in Files}

\* request ids that name no row of tags, and no row of files
UnknownTagIds == {999}
UnknownFileIds == {7}

(***************************************************************************)
(* Helpers.                                                                *)
(***************************************************************************)
Range(s) == {s[i] : i \in DOMAIN s}

SeqsUpTo(S, n) == UNION {[1..k -> S] : k \in 0..n}

(***************************************************************************)
(* assign_tags: POST /api/files/<file_id>/tags                             *)
(***************************************************************************)

\* The foreign key file_tags.tag_id -> tags.id: an insert naming no tag row
\* raises IntegrityError.
ForeignKeyOK(tag_id) == tag_id \in TagIds

\* The unique key of file_tags: the row, if any, that holds (file_id, tag_id).
DuplicateKeyRows(rows, file_id, tag_id) ==
    {r \in rows : r.file_id = file_id /\ r.tag_id = tag_id}

\* Faulty variant: the DELETE matches no row
DeleteFileTagsOfNoFile(rows, file_id) == rows

\* DELETE FROM file_tags WHERE file_id = %s
DeleteFileTags(rows, file_id) == {r \in rows : r.file_id # file_id}

\* Faulty variant: a plain INSERT, without ON DUPLICATE KEY UPDATE and without the key
InsertFileTagNoUpsert(rows, file_id, tag_id, user_id, ts) ==
    IF ~ForeignKeyOK(tag_id) THEN rows
    ELSE rows \cup {[file_id |-> file_id, tag_id |-> tag_id,
                     assigned_by |-> user_id, assigned_at |-> ts]}

\* INSERT INTO file_tags ... ON DUPLICATE KEY UPDATE assigned_at = CURRENT_TIMESTAMP,
\* inside try / except IntegrityError (the failed statement changes nothing).
InsertFileTag(rows, file_id, tag_id, user_id, ts) ==
    IF ~ForeignKeyOK(tag_id) THEN rows
    ELSE IF DuplicateKeyRows(rows, file_id, tag_id) # {}
    THEN {IF r \in DuplicateKeyRows(rows, file_id, tag_id)
          THEN [r EXCEPT !.assigned_at = ts] ELSE r : r \in rows}
    ELSE rows \cup {[file_id |-> file_id, tag_id |-> tag_id,
                     assigned_by |-> user_id, assigned_at |-> ts]}

\* Faulty variant: the loop gives up at the first tag id the store rejects
RECURSIVE InsertAllAbortOnError(_, _, _, _, _)
InsertAllAbortOnError(rows, file_id, tag_ids, user_id, ts) ==
    IF tag_ids = <<>> \/ ~ForeignKeyOK(Head(tag_ids)) THEN rows
    ELSE InsertAllAbortOnError(InsertFileTag(rows, file_id, Head(tag_ids), user_id, ts),
                               file_id, Tail(tag_ids), user_id, ts)

\* for tag_id in tag_ids: ...
RECURSIVE InsertAll(_, _, _, _, _)
InsertAll(rows, file_id, tag_ids, user_id, ts) ==
    IF tag_ids = <<>> THEN rows
    ELSE InsertAll(InsertFileTag(rows, file_id, Head(tag_ids), user_id, ts),
                   file_id, Tail(tag_ids), user_id, ts)

\* Faulty variant: the replace flag is ignored: nothing is deleted
AssignTransactionNoDelete(rows, file_id, data, ts) ==
    InsertAll(rows, file_id, data.tag_ids, data.user_id, ts)

\* The transaction of one request: optional delete, the inserts, commit.
AssignTransaction(rows, file_id, data, ts) ==
    InsertAll(IF data.replace THEN DeleteFileTags(rows, file_id) ELSE rows,
              file_id, data.tag_ids, data.user_id, ts)

\* SELECT t.id ... FROM file_tags ft JOIN tags t JOIN dimensions d WHERE ft.file_id = %s
UpdatedTags(rows, file_id) ==
    {t.id : t \in {t \in Tags :
        /\ \E r \in rows : r.file_id = file_id /\ r.tag_id = t.id
        /\ \E d \in Dimensions : d.id = t.dimension_id}}

\* Faulty variant: the existence check is skipped
FileExistsAlways(file_id) == TRUE

\* SELECT id FROM files WHERE id = %s ... if not file: 404
FileExists(file_id) == \E f \in Files : f.id = file_id

\* Request bodies: tag_ids may be missing; replace defaults to False, user_id to 1.
AssignBodies ==
    [has_tag_ids : {TRUE}, tag_ids : SeqsUpTo(TagIds \cup UnknownTagIds, MaxTagIds),
     replace : BOOLEAN, user_id : {1}]
    \cup {[has_tag_ids |-> FALSE, tag_ids |-> <<>>, replace |-> FALSE, user_id |-> 1]}

\* Each request is taken as one step, from its arrival to its response (the
\* handlers keep no state between requests); the next request is taken up when
\* the response has left.
Idle == resp.op = "none"

AssignTags(file_id, data) ==
    /\ Idle
    /\ before' = file_tags
    /\ now' = now
    /\ IF ~data.has_tag_ids
       THEN /\ file_tags' = file_tags
            /\ resp' = [op |-> "assign_tags", file_id |-> file_id, data |-> data,
                        status |-> 400,
                        body |-> [success |-> FALSE, error |-> "tag_ids required"]]
       ELSE IF ~FileExists(file_id)
       THEN /\ file_tags' = file_tags
            /\ resp' = [op |-> "assign_tags", file_id |-> file_id, data |-> data,
                        status |-> 404,
                        body |-> [success |-> FALSE, error |-> "File not found"]]
       ELSE /\ file_tags' = AssignTransaction(file_tags, file_id, data, now)
            /\ Cardinality(file_tags') <= MaxRows
            /\ resp' = [op |-> "assign_tags", file_id |-> file_id, data |-> data,
                        status |-> 200,
                        body |-> [success |-> TRUE,
                                  data |-> [file_id |-> file_id,
                                            tags |-> UpdatedTags(file_tags', file_id)]]]

(***************************************************************************)
(* assign_tags when a statement raises an error other than IntegrityError  *)
(* (connection lost, pool exhausted, a value the connector cannot send):   *)
(* inside the transaction block "except Exception: conn.rollback(); raise" *)
(* runs, and the outer "except Exception" answers 500.                     *)
(***************************************************************************)
\* the store calls of the handler at which the error is raised
FailureSteps == {"file_check", "connect", "delete", "insert", "read_back"}

\* conn.rollback(): the statements executed since the last commit are undone;
\* committed is the table as of the last commit.
Rollback(committed, uncommitted) == committed

\* the table as the open transaction has it when the k-th insert raises
BeforeInsert(rows, file_id, data, k, ts) ==
    InsertAll(IF data.replace THEN DeleteFileTags(rows, file_id) ELSE rows,
              file_id, SubSeq(data.tag_ids, 1, k - 1), data.user_id, ts)

\* the table the request leaves when the given step raises; k is the index of
\* the failing insert. conn.commit() comes before the read-back SELECT.
TableAfterFailure(rows, file_id, data, step, k, ts) ==
    IF step \in {"file_check", "connect"} THEN rows
    ELSE IF step = "delete" THEN Rollback(rows, rows)
    ELSE IF step = "insert" THEN Rollback(rows, BeforeInsert(rows, file_id, data, k, ts))
    ELSE Rollback(AssignTransaction(rows, file_id, data, ts),
                  AssignTransaction(rows, file_id, data, ts))

AssignTagsFailing(file_id, data, step, k) ==
    /\ Idle
    /\ before' = file_tags
    /\ now' = now
    /\ data.has_tag_ids
    /\ step = "file_check" \/ FileExists(file_id)
    /\ step = "delete" => data.replace
    /\ IF step = "insert" THEN k \in 1..Len(data.tag_ids) ELSE k = 0
    /\ file_tags' = TableAfterFailure(file_tags, file_id, data, step, k, now)
    /\ Cardinality(file_tags') <= MaxRows
    /\ resp' = [op |-> "assign_tags", file_id |-> file_id, data |-> data,
                status |-> 500,
                body |-> [success |-> FALSE, error |-> step]]

(***************************************************************************)
(* assign_tags statement by statement, for requests that run at once.      *)
(* Each request has its own connection from the pool (get_db_connection);  *)
(* the handler takes no lock and reads nothing before it writes.           *)
(***************************************************************************)
Clients == {1, 2}

Other(c) == CHOOSE k \in Clients : k # c

\* the file ids and bodies of the requests that run beside one another
ConcFileIds == {1} \cup UnknownFileIds

ConcBodies ==
    [has_tag_ids : {TRUE}, tag_ids : SeqsUpTo(TagIds, MaxConcTagIds),
     replace : BOOLEAN, user_id : {1}]
    \cup {[has_tag_ids |-> FALSE, tag_ids |-> <<>>, replace |-> FALSE, user_id |-> 1]}

\* a client with no request in progress
NoRequest ==
    [pc |-> "idle", file_id |-> 0,
     data |-> [has_tag_ids |-> FALSE, tag_ids |-> <<>>, replace |-> FALSE, user_id |-> 1],
     i |-> 0, alone |-> TRUE, status |-> 0, tags |-> {}]

\* the request of client c is between its first and its last statement
InFlight(c) == conn[c].pc \in {"delete", "insert", "read_back"}

\* The store runs each statement at once and as a whole, whatever other
\* transactions are open: no statement waits for, or fails on, a lock of
\* another connection, and a statement sees the rows as the statements run
\* so far have left them.
MayExecute(c) == TRUE

\* request.get_json(), the tag_ids check, the file check, get_db_connection().
\* alone records that no other request was in progress during this one.
Receive(c, file_id, data) ==
    /\ conn[c].pc = "idle"
    /\ conn' =
         [k \in Clients |->
            IF k = c
            THEN IF ~data.has_tag_ids
                 THEN [NoRequest EXCEPT !.pc = "done", !.file_id = file_id,
                                        !.data = data, !.status = 400]
                 ELSE IF ~FileExists(file_id)
                 THEN [NoRequest EXCEPT !.pc = "done", !.file_id = file_id,
                                        !.data = data, !.status = 404]
                 ELSE [NoRequest EXCEPT !.pc = "delete", !.file_id = file_id,
                                        !.data = data, !.i = 1,
                                        !.alone = ~InFlight(Other(c))]
            ELSE IF InFlight(k) /\ data.has_tag_ids /\ FileExists(file_id)
                 THEN [conn[k] EXCEPT !.alone = FALSE]
                 ELSE conn[k]]
    /\ UNCHANGED file_tags

\* if data.get('replace', False): cursor.execute("DELETE FROM file_tags WHERE file_id = %s")
DeleteStep(c) ==
    /\ conn[c].pc = "delete"
    /\ MayExecute(c)
    /\ file_tags' = IF conn[c].data.replace
                    THEN DeleteFileTags(file_tags, conn[c].file_id)
                    ELSE file_tags
    /\ conn' = [conn EXCEPT ![c].pc = "insert"]

\* one turn of "for tag_id in tag_ids": the INSERT ... ON DUPLICATE KEY UPDATE
InsertStep(c) ==
    /\ conn[c].pc = "insert"
    /\ conn[c].i <= Len(conn[c].data.tag_ids)
    /\ MayExecute(c)
    /\ file_tags' = InsertFileTag(file_tags, conn[c].file_id,
                                  conn[c].data.tag_ids[conn[c].i],
                                  conn[c].data.user_id, now)
    /\ conn' = [conn EXCEPT ![c].i = @ + 1]

\* conn.commit() after the loop
CommitStep(c) ==
    /\ conn[c].pc = "insert"
    /\ conn[c].i > Len(conn[c].data.tag_ids)
    /\ conn' = [conn EXCEPT ![c].pc = "read_back"]
    /\ UNCHANGED file_tags

\* the read-back SELECT and the 200 response
ReadBackStep(c) ==
    /\ conn[c].pc = "read_back"
    /\ conn' = [conn EXCEPT ![c].pc = "done", ![c].status = 200,
                            ![c].tags = UpdatedTags(file_tags, conn[c].file_id)]
    /\ UNCHANGED file_tags

\* the response has left; the client may send its next request
Return(c) ==
    /\ conn[c].pc = "done"
    /\ conn' = [conn EXCEPT ![c] = NoRequest]
    /\ UNCHANGED file_tags

(***************************************************************************)
(* Parsing of the ?tags= query string (get_files and cgrid_navigate).      *)
(* A string is held as the list of its comma-separated fields, each field  *)
(* a sequence of characters: "" is << <<>> >>, "1, 3" is                   *)
(* << <<"1">>, <<" ", "3">> >>.                                            *)
(***************************************************************************)
Digits == <<"0", "1", "2", "3", "4", "5", "6", "7", "8", "9">>

IsDigit(c) == \E i \in DOMAIN Digits : Digits[i] = c

DigitVal(c) == (CHOOSE i \in DOMAIN Digits : Digits[i] = c) - 1

\* str.strip(): leading and trailing blanks removed
RECURSIVE Strip(_)
Strip(t) ==
    IF t = <<>> THEN t
    ELSE IF Head(t) = " " THEN Strip(Tail(t))
    ELSE IF t[Len(t)] = " " THEN Strip(SubSeq(t, 1, Len(t) - 1))
    ELSE t

\* int(s) succeeds on a non-empty run of decimal digits, else ValueError
IsInt(t) == t # <<>> /\ \A i \in DOMAIN t : IsDigit(t[i])

RECURSIVE IntOf(_)
IntOf(t) ==
    IF t = <<>> THEN 0
    ELSE 10 * IntOf(SubSeq(t, 1, Len(t) - 1)) + DigitVal(t[Len(t)])

EmptyString == << <<>> >>

\* [... for t in tag_ids_str.split(',') if t.strip()]
KeptFields(str) == SelectSeq(str, LAMBDA t : Strip(t) # <<>>)

\* tag_ids = [] ; if tag_ids_str: tag_ids = [int(t.strip()) for t in ... if t.strip()]
\* The result is the id list, or ValueError when int() rejects a kept field.
ParseTagIds(str) ==
    IF str = EmptyString THEN [ok |-> TRUE, ids |-> <<>>]
    ELSE IF \E i \in DOMAIN KeptFields(str) : ~IsInt(Strip(KeptFields(str)[i]))
    THEN [ok |-> FALSE, ids |-> <<>>]
    ELSE [ok |-> TRUE,
          ids |-> [i \in DOMAIN KeptFields(str) |-> IntOf(Strip(KeptFields(str)[i]))]]

\* the fields of the request strings: empty, the ids 1, 2, " 3" and 9, and "x"
TokenInputs ==
    { <<>>, <<"1">>, <<"2">>, <<" ", "3">>, <<"9">>, <<"x">> }

TagStrings == UNION {[1..k -> TokenInputs] : k \in 1..MaxTokens}

(***************************************************************************)
(* The AND-filter query shared by get_files and cgrid_navigate:            *)
(*   FROM files f JOIN file_tags ft ON f.id = ft.file_id                   *)
(*   WHERE f.user_id = %s AND ft.tag_id IN (...)                           *)
(*   GROUP BY f.id HAVING COUNT(DISTINCT ft.tag_id) = %s                   *)
(* with the last parameter len(tag_ids), the length of the id list.        *)
(***************************************************************************)
\* Faulty variant: the join drops "ft.tag_id IN (...)": every tag of the file is joined
JoinedRowsAnyTagId(rows, f, user_id, tag_ids) ==
    {r \in rows : r.file_id = f.id /\ f.user_id = user_id}

\* the joined rows of one file that pass the WHERE clause
JoinedRows(rows, f, user_id, tag_ids) ==
    {r \in rows : r.file_id = f.id /\ f.user_id = user_id /\ r.tag_id \in Range(tag_ids)}

\* the groups (one per file id) that pass HAVING
MatchedGroups(rows, user_id, tag_ids, n) ==
    {f \in Files :
        /\ JoinedRows(rows, f, user_id, tag_ids) # {}
        /\ Cardinality({r.tag_id : r \in JoinedRows(rows, f, user_id, tag_ids)}) = n}

(***************************************************************************)
(* get_files: GET /api/files                                               *)
(***************************************************************************)
\* Faulty variant: the HAVING clause is dropped: a file with any selected tag is listed
ListedFilesAnyTag(rows, user_id, tag_ids) ==
    IF tag_ids # <<>>
    THEN {f \in Files : JoinedRows(rows, f, user_id, tag_ids) # {}}
    ELSE {f \in Files : f.user_id = user_id}

\* the files the listing query selects, before ORDER BY / LIMIT
ListedFiles(rows, user_id, tag_ids) ==
    IF tag_ids # <<>>
    THEN {f \in MatchedGroups(rows, user_id, tag_ids, Len(tag_ids)) :
             \E u \in Users : u = f.user_id}
    ELSE {f \in Files : f.user_id = user_id /\ \E u \in Users : u = f.user_id}

\* ORDER BY f.created_at DESC: every order of the rows that is descending in
\* created_at; rows of equal created_at come in an order the store chooses.
OrderedByCreatedAtDesc(fs) ==
    {s \in [1..Cardinality(fs) -> fs] :
        /\ \A i, j \in DOMAIN s : i # j => s[i] # s[j]
        /\ \A i, j \in DOMAIN s : i < j => s[i].created_at >= s[j].created_at}

\* LIMIT %s OFFSET %s
LimitOffset(s, limit, offset) ==
    SubSeq(s, offset + 1, IF offset + limit < Len(s) THEN offset + limit ELSE Len(s))

DefaultLimit == 100
DefaultOffset == 0

\* (limit, offset) pairs of the requests
Pages == {<<DefaultLimit, DefaultOffset>>, <<1, 1>>}

GetFiles(user_id, tags, limit, offset) ==
    /\ Idle
    /\ before' = file_tags
    /\ UNCHANGED <<file_tags, now>>
    /\ LET p == ParseTagIds(tags) IN
       IF ~p.ok
       THEN resp' = [op |-> "get_files", user_id |-> user_id, tags |-> tags,
                     limit |-> limit, offset |-> offset, status |-> 500,
                     body |-> [success |-> FALSE, error |-> "ValueError"]]
       ELSE \E s \in OrderedByCreatedAtDesc(ListedFiles(file_tags, user_id, p.ids)) :
            LET files == LimitOffset(s, limit, offset) IN
            resp' = [op |-> "get_files", user_id |-> user_id, tags |-> tags,
                     limit |-> limit, offset |-> offset, status |-> 200,
                     body |-> [success |-> TRUE,
                               data |-> [i \in DOMAIN files |-> files[i].id],
                               count |-> Len(files),
                               filters |-> [tag_ids |-> p.ids, user_id |-> user_id]]]

(***************************************************************************)
(* execute_query(..., fetch_one=True): cursor.fetchone(), then               *)
(* cursor.close() in the finally block.  The result set is held as a         *)
(* function from a row key to the row.  An outcome is                        *)
(*   [raised |-> FALSE, row |-> <<>>]    fetchone() gave None (no row)       *)
(*   [raised |-> FALSE, row |-> <<r>>]   fetchone() gave the row r           *)
(*   [raised |-> TRUE,  row |-> <<>>]    an exception left execute_query     *)
(* With several rows fetchone() gives the first one (any row: the queries    *)
(* that reach this have no ORDER BY) and leaves the others unread; closing   *)
(* a cursor with unread rows either discards them or raises the connector's  *)
(* InternalError, depending on the connector build.                          *)
(***************************************************************************)
ExecuteFetchOne(result) ==
    IF DOMAIN result = {} THEN {[raised |-> FALSE, row |-> <<>>]}
    ELSE {[raised |-> FALSE, row |-> <<result[k]>>] : k \in DOMAIN result}
         \cup (IF Cardinality(DOMAIN result) > 1
               THEN {[raised |-> TRUE, row |-> <<>>]} ELSE {})

(***************************************************************************)
(* cgrid_navigate: GET /api/cgrid/navigate                                 *)
(***************************************************************************)
\* for dim in dimensions: SELECT ... FROM tags WHERE dimension_id = %s AND is_active = TRUE
NavigateTags ==
    {t \in Tags : t.is_active /\ \E d \in Dimensions : d.id = t.dimension_id}

\* Faulty variant: the count drops "f.user_id = %s": files of every user are counted
CountAllWithTagAnyUser(rows, user_id, tag_id) ==
    Cardinality({f \in Files : \E r \in rows : r.file_id = f.id /\ r.tag_id = tag_id})

\* no selection: SELECT COUNT(DISTINCT f.id) ... WHERE f.user_id = %s AND ft.tag_id = %s
CountAllWithTag(rows, user_id, tag_id) ==
    Cardinality({f \in Files :
        f.user_id = user_id /\ \E r \in rows : r.file_id = f.id /\ r.tag_id = tag_id})

\* tag already selected: SELECT COUNT(DISTINCT f.id) as cnt ... GROUP BY f.id HAVING ...
\* gives one row per matched group, each counting the distinct f.id of its group.
CountSelectedResult(rows, user_id, selected_tag_ids) ==
    [f \in MatchedGroups(rows, user_id, selected_tag_ids, Len(selected_tag_ids)) |->
        [cnt |-> Cardinality({g.id : g \in {f}})]]

\* Faulty variant: HAVING compares with len(selected_tag_ids), not len(all_tags)
CountIfAddedStaleLen(rows, user_id, selected_tag_ids, tag_id) ==
    Cardinality(MatchedGroups(rows, user_id, Append(selected_tag_ids, tag_id),
                              Len(selected_tag_ids)))

\* tag not selected: SELECT COUNT(*) FROM (... all_tags = selected_tag_ids + [tag['id']] ...)
CountIfAdded(rows, user_id, selected_tag_ids, tag_id) ==
    LET all_tags == Append(selected_tag_ids, tag_id) IN
    Cardinality(MatchedGroups(rows, user_id, all_tags, Len(all_tags)))

\* Faulty variant: the total counts the joined rows, not the groups
TotalMatchingRows(rows, user_id, selected_tag_ids) ==
    IF selected_tag_ids # <<>>
    THEN Cardinality(UNION {JoinedRows(rows, f, user_id, selected_tag_ids) :
            f \in MatchedGroups(rows, user_id, selected_tag_ids, Len(selected_tag_ids))})
    ELSE Cardinality({f \in Files : f.user_id = user_id})

\* total_matching_files
TotalMatching(rows, user_id, selected_tag_ids) ==
    IF selected_tag_ids # <<>>
    THEN Cardinality(MatchedGroups(rows, user_id, selected_tag_ids, Len(selected_tag_ids)))
    ELSE Cardinality({f \in Files : f.user_id = user_id})

\* tag['file_count'] = count_result['cnt'] if count_result else 0
FileCount(rows, user_id, selected_tag_ids, tag_id, fetched) ==
    IF selected_tag_ids = <<>> THEN CountAllWithTag(rows, user_id, tag_id)
    ELSE IF tag_id \in Range(selected_tag_ids)
    THEN (IF fetched.row = <<>> THEN 0 ELSE fetched.row[1].cnt)
    ELSE CountIfAdded(rows, user_id, selected_tag_ids, tag_id)

\* The per-dimension lists of the response are held as functions over the tag ids.
CgridNavigate(user_id, tags) ==
    /\ Idle
    /\ before' = file_tags
    /\ UNCHANGED <<file_tags, now>>
    /\ LET p == ParseTagIds(tags) IN
       IF ~p.ok
       THEN resp' = [op |-> "cgrid_navigate", user_id |-> user_id, tags |-> tags,
                     status |-> 500,
                     body |-> [success |-> FALSE, error |-> "ValueError"]]
       ELSE \E fetched \in ExecuteFetchOne(CountSelectedResult(file_tags, user_id, p.ids)) :
            IF /\ fetched.raised
               /\ \E t \in NavigateTags : t.id \in Range(p.ids)
            THEN resp' = [op |-> "cgrid_navigate", user_id |-> user_id, tags |-> tags,
                          status |-> 500,
                          body |-> [success |-> FALSE, error |-> "InternalError"]]
            ELSE /\ ~fetched.raised
                 /\ resp' = [op |-> "cgrid_navigate", user_id |-> user_id, tags |-> tags,
                          status |-> 200,
                          body |-> [success |-> TRUE,
                                    data |-> [
                              file_count |-> [t \in {x.id : x \in NavigateTags} |->
                                  FileCount(file_tags, user_id, p.ids, t, fetched)],
                              is_selected |-> [t \in {x.id : x \in NavigateTags} |->
                                  t \in Range(p.ids)],
                              selected_tag_ids |-> p.ids,
                              total_matching_files |->
                                  TotalMatching(file_tags, user_id, p.ids)]]]

\* The response leaves the server.
Respond ==
    /\ ~Idle
    /\ resp' = [op |-> "none"]
    /\ before' = file_tags
    /\ UNCHANGED <<file_tags, now, conn>>

\* The store's clock advances (between requests).
Tick ==
    /\ Idle
    /\ now < MaxNow
    /\ now' = now + 1
    /\ UNCHANGED <<file_tags, before, resp, conn>>

Init ==
    /\ file_tags = {}
    /\ now = 0
    /\ before = {}
    /\ resp = [op |-> "none"]
    /\ conn = [c \in Clients |-> NoRequest]

AssignRequest ==
    /\ Idle
    /\ \E file_id \in FileIds \cup UnknownFileIds, data \in AssignBodies :
          AssignTags(file_id, data)
    /\ UNCHANGED conn

GetFilesRequest ==
    /\ Idle
    /\ \E user_id \in Users, tags \in TagStrings, pg \in Pages :
          GetFiles(user_id, tags, pg[1], pg[2])
    /\ UNCHANGED conn

NavigateRequest ==
    /\ Idle
    /\ \E user_id \in Users, tags \in TagStrings : CgridNavigate(user_id, tags)
    /\ UNCHANGED conn

\* All requests, with the clock running.
Next == AssignRequest \/ GetFilesRequest \/ NavigateRequest \/ Respond \/ Tick

Spec == Init /\ [][Next]_vars

\* The write path alone: assignments with the clock running.
ClockedAssignRequest ==
    /\ AssignRequest
    /\ Cardinality(file_tags') <= MaxClockedRows

NextWrite == ClockedAssignRequest \/ Respond \/ Tick

SpecWrite == Init /\ [][NextWrite]_vars

\* The read path over every association state: assignments, listings and
\* navigation at one clock value (no read looks at assigned_at).
NextRead == AssignRequest \/ GetFilesRequest \/ NavigateRequest \/ Respond

SpecRead == Init /\ [][NextRead]_vars

\* The assignment endpoint with store errors, over a fixed clock.
FailingAssignRequest ==
    /\ Idle
    /\ \E file_id \in FileIds \cup UnknownFileIds, data \in AssignBodies,
          step \in FailureSteps, k \in 0..MaxTagIds :
          AssignTagsFailing(file_id, data, step, k)
    /\ UNCHANGED conn

NextFailing == AssignRequest \/ FailingAssignRequest \/ Respond

SpecFailing == Init /\ [][NextFailing]_vars

\* Two clients of the assignment endpoint, statement by statement.
ConcReceive ==
    /\ \E c \in Clients, file_id \in ConcFileIds, data \in ConcBodies :
          Receive(c, file_id, data)
    /\ UNCHANGED <<now, before, resp>>

ConcDelete == (\E c \in Clients : DeleteStep(c)) /\ UNCHANGED <<now, before, resp>>

ConcInsert == (\E c \in Clients : InsertStep(c)) /\ UNCHANGED <<now, before, resp>>

ConcCommit == (\E c \in Clients : CommitStep(c)) /\ UNCHANGED <<now, before, resp>>

ConcReadBack == (\E c \in Clients : ReadBackStep(c)) /\ UNCHANGED <<now, before, resp>>

ConcReturn == (\E c \in Clients : Return(c)) /\ UNCHANGED <<now, before, resp>>

NextConcurrent ==
    ConcReceive \/ ConcDelete \/ ConcInsert \/ ConcCommit \/ ConcReadBack \/ ConcReturn

SpecConcurrent == Init /\ [][NextConcurrent]_vars

(***************************************************************************)
(* Properties.  The definitions below state what a request should do in    *)
(* terms of the association table alone, without the queries.              *)
(***************************************************************************)
\* the tag ids file fid is associated with
TagsOfFile(rows, fid) == {r.tag_id : r \in {x \in rows : x.file_id = fid}}

\* the ids of the files owned by user u that carry every tag id of the set S
MatchSet(rows, u, S) ==
    {f.id : f \in {g \in Files : g.user_id = u /\ S \subseteq TagsOfFile(rows, g.id)}}

ActiveTagIds == {t.id : t \in {x \in Tags : x.is_active}}

\* a ?tags= string all of whose fields are numeric tag ids (or the empty string)
WellFormed(str) == str = EmptyString \/ \A i \in DOMAIN str : IsInt(Strip(str[i]))

\* the selection a well-formed string denotes
SelectionOf(str) ==
    IF str = EmptyString THEN {} ELSE {IntOf(Strip(str[i])) : i \in DOMAIN str}

\* the string names each tag id of its selection once
DistinctIds(str) == str = EmptyString \/ Cardinality(SelectionOf(str)) = Len(str)

Unpaginated == resp.limit = DefaultLimit /\ resp.offset = DefaultOffset

\* C1: for every user U and every selection S of k >= 1 distinct tag ids, the
\* unpaginated listing holds exactly the files owned by U that are associated
\* with every tag id of S (extra tags do not matter, a proper subset does not
\* match), each once; for k = 0 it holds exactly the files owned by U.
C1_ListingIsExactAndFilter ==
    (/\ resp.op = "get_files"
     /\ WellFormed(resp.tags) /\ DistinctIds(resp.tags)
     /\ Unpaginated)
    => /\ resp.status = 200 /\ resp.body.success
       /\ Range(resp.body.data) = MatchSet(file_tags, resp.user_id, SelectionOf(resp.tags))
       /\ Len(resp.body.data) = Cardinality(Range(resp.body.data))
       /\ \A fid \in FileIds :
            fid \in Range(resp.body.data) <=>
              /\ \E f \in Files : f.id = fid /\ f.user_id = resp.user_id
              /\ Cardinality(SelectionOf(resp.tags) \cap TagsOfFile(file_tags, fid))
                   = Cardinality(SelectionOf(resp.tags))

\* C1's case: a two-tag selection lists a file that carries a third tag too,
\* while another file of the same user that carries nothing is left out.
C1_Witness ==
    /\ resp.op = "get_files" /\ resp.status = 200 /\ Unpaginated
    /\ WellFormed(resp.tags) /\ DistinctIds(resp.tags)
    /\ Cardinality(SelectionOf(resp.tags)) = 2
    /\ \E fid \in Range(resp.body.data) :
          TagsOfFile(file_tags, fid) \ SelectionOf(resp.tags) # {}
    /\ \E f \in Files : f.user_id = resp.user_id /\ f.id \notin Range(resp.body.data)

\* C2: in navigate, for a non-empty selection S and a listed tag T in S, the
\* file_count reported for T is the number of files of U that match S.
C2_SelectedTagCountIsMatchCount ==
    (/\ resp.op = "cgrid_navigate" /\ resp.status = 200
     /\ WellFormed(resp.tags) /\ DistinctIds(resp.tags)
     /\ SelectionOf(resp.tags) # {})
    => \A t \in DOMAIN resp.body.data.file_count :
          t \in SelectionOf(resp.tags) =>
            resp.body.data.file_count[t]
              = Cardinality(MatchSet(file_tags, resp.user_id, SelectionOf(resp.tags)))

\* C3: in navigate, every active tag is reported, and for every selection S
\* (empty or not) and every active tag T not in S the reported file_count is
\* the number of files of U associated with every tag id of S \cup {T}.
C3_ForwardCountIsMatchCountWithTag ==
    (/\ resp.op = "cgrid_navigate" /\ resp.status = 200
     /\ WellFormed(resp.tags) /\ DistinctIds(resp.tags))
    => /\ DOMAIN resp.body.data.file_count = ActiveTagIds
       /\ \A t \in ActiveTagIds \ SelectionOf(resp.tags) :
            resp.body.data.file_count[t]
              = Cardinality(MatchSet(file_tags, resp.user_id,
                                     SelectionOf(resp.tags) \cup {t}))

\* C3's case: a non-empty selection, and a tag outside it whose forward count
\* is positive but smaller than the number of files matching the selection.
C3_Witness ==
    /\ resp.op = "cgrid_navigate" /\ resp.status = 200
    /\ WellFormed(resp.tags) /\ DistinctIds(resp.tags)
    /\ SelectionOf(resp.tags) # {}
    /\ \E t \in ActiveTagIds \ SelectionOf(resp.tags) :
          /\ resp.body.data.file_count[t] >= 1
          /\ resp.body.data.file_count[t] < resp.body.data.total_matching_files

\* C4: in navigate, total_matching_files is the number of files of U associated
\* with every tag id of S (all files of U when S is empty), which is the size of
\* the unpaginated listing for the same S and U.
C4_TotalIsMatchCount ==
    (/\ resp.op = "cgrid_navigate" /\ resp.status = 200
     /\ WellFormed(resp.tags) /\ DistinctIds(resp.tags))
    => /\ resp.body.data.total_matching_files
            = Cardinality(MatchSet(file_tags, resp.user_id, SelectionOf(resp.tags)))
       /\ resp.body.data.total_matching_files
            = Cardinality(ListedFiles(file_tags, resp.user_id,
                                      resp.body.data.selected_tag_ids))

\* C4's case: a non-empty selection matched by some but not all files of U.
C4_Witness ==
    /\ resp.op = "cgrid_navigate" /\ resp.status = 200
    /\ WellFormed(resp.tags) /\ DistinctIds(resp.tags)
    /\ SelectionOf(resp.tags) # {}
    /\ resp.body.data.total_matching_files >= 1
    /\ resp.body.data.total_matching_files
         < Cardinality({f \in Files : f.user_id = resp.user_id})

\* the (file id, tag id) pairs of the table
Pairs(rows) == {<<r.file_id, r.tag_id>> : r \in rows}

\* a completed assignment request on an existing file
AssignDone ==
    /\ resp.op = "assign_tags"
    /\ resp.data.has_tag_ids
    /\ \E f \in Files : f.id = resp.file_id

\* C5: an assignment on an existing file whose list mixes existing and
\* nonexistent tag ids, in any order, returns success; afterwards the file is
\* associated with every existing id of the list (written by this request) and
\* with no nonexistent id, and the returned list shows the same.
C5_UnknownTagIdsAreSkipped ==
    (/\ AssignDone
     /\ Range(resp.data.tag_ids) \cap TagIds # {}
     /\ Range(resp.data.tag_ids) \ TagIds # {})
    => /\ resp.status = 200 /\ resp.body.success
       /\ \A t \in Range(resp.data.tag_ids) \cap TagIds :
            \E r \in file_tags :
                r.file_id = resp.file_id /\ r.tag_id = t /\ r.assigned_at = now
       /\ TagsOfFile(file_tags, resp.file_id) \subseteq TagIds
       /\ TagsOfFile(file_tags, resp.file_id) =
            (IF resp.data.replace THEN {} ELSE TagsOfFile(before, resp.file_id))
            \cup (Range(resp.data.tag_ids) \cap TagIds)
       /\ resp.body.data.tags = TagsOfFile(file_tags, resp.file_id)

\* C5's case: the unknown id comes first in the list, and the known id after
\* it is newly attached to the file.
C5_Witness ==
    /\ AssignDone /\ resp.status = 200
    /\ Len(resp.data.tag_ids) = 2
    /\ resp.data.tag_ids[1] \notin TagIds
    /\ resp.data.tag_ids[2] \in TagIds
    /\ resp.data.tag_ids[2] \notin TagsOfFile(before, resp.file_id)
    /\ resp.data.tag_ids[2] \in TagsOfFile(file_tags, resp.file_id)

\* C6: there is at most one association per (file id, tag id) pair in every
\* reachable state; an additive assignment of ids the file already carries
\* leaves the set of pairs unchanged, refreshes assigned_at of exactly the
\* re-assigned pairs and changes nothing else of any row.
C6_PairUniqueAndReassignRefreshesTimestamp ==
    /\ \A r1, r2 \in file_tags :
          (r1.file_id = r2.file_id /\ r1.tag_id = r2.tag_id) => r1 = r2
    /\ (AssignDone /\ resp.status = 200 /\ ~resp.data.replace) =>
          /\ (Range(resp.data.tag_ids) \cap TagIds
                \subseteq TagsOfFile(before, resp.file_id))
             => /\ Pairs(file_tags) = Pairs(before)
                /\ Cardinality(file_tags) = Cardinality(before)
          /\ \A rb \in before :
                IF rb.file_id = resp.file_id /\ rb.tag_id \in Range(resp.data.tag_ids)
                THEN [rb EXCEPT !.assigned_at = now] \in file_tags
                ELSE rb \in file_tags

\* C6's case: a tag id the file already carries, assigned earlier, is assigned
\* again twice in one additive request.
C6_Witness ==
    /\ AssignDone /\ resp.status = 200 /\ ~resp.data.replace
    /\ Len(resp.data.tag_ids) = 2
    /\ resp.data.tag_ids[1] = resp.data.tag_ids[2]
    /\ \E rb \in before :
          /\ rb.file_id = resp.file_id /\ rb.tag_id = resp.data.tag_ids[1]
          /\ rb.assigned_at < now
          /\ rb \notin file_tags
    /\ Cardinality(file_tags) = Cardinality(before)

\* C7: after a successful assignment with a list L of existing tag ids the
\* file's association set is exactly L with replace, and the earlier set united
\* with L without; the rows of every other file are unchanged; the returned tag
\* list is the file's complete resulting tag set.
C7_ReplaceOrUnion ==
    (/\ AssignDone /\ resp.status = 200
     /\ Range(resp.data.tag_ids) \subseteq TagIds)
    => /\ TagsOfFile(file_tags, resp.file_id) =
            (IF resp.data.replace
             THEN Range(resp.data.tag_ids)
             ELSE TagsOfFile(before, resp.file_id) \cup Range(resp.data.tag_ids))
       /\ {r \in file_tags : r.file_id # resp.file_id}
            = {r \in before : r.file_id # resp.file_id}
       /\ resp.body.data.tags = TagsOfFile(file_tags, resp.file_id)

\* C7's case: a replace that drops an earlier tag of the file while another
\* file keeps its tags.
C7_Witness ==
    /\ AssignDone /\ resp.status = 200 /\ resp.data.replace
    /\ resp.data.tag_ids # <<>>
    /\ Range(resp.data.tag_ids) \subseteq TagIds
    /\ TagsOfFile(before, resp.file_id) \ Range(resp.data.tag_ids) # {}
    /\ \E r \in file_tags : r.file_id # resp.file_id

\* C8: an assignment (a body with tag_ids) on a file id that does not exist
\* ends with 404 and success = false, and no row of file_tags is deleted or
\* inserted, with replace or without.
C8_UnknownFileIsNotFound ==
    (/\ resp.op = "assign_tags"
     /\ resp.data.has_tag_ids
     /\ ~\E f \in Files : f.id = resp.file_id)
    => /\ resp.status = 404
       /\ ~resp.body.success
       /\ file_tags = before

\* C8's case: a replace request with tag ids on an unknown file while the
\* table holds rows.
C8_Witness ==
    /\ resp.op = "assign_tags" /\ resp.status = 404
    /\ resp.data.replace
    /\ Range(resp.data.tag_ids) \cap TagIds # {}
    /\ before # {}

\* a string with a field that is neither blank nor a number
HasMalformedToken(str) == \E i \in DOMAIN str : Strip(str[i]) # <<>> /\ ~IsInt(Strip(str[i]))

\* the selection of the fields that are numbers
WellFormedSelection(str) ==
    {IntOf(Strip(str[i])) : i \in {j \in DOMAIN str : IsInt(Strip(str[j]))}}

\* C9: in listing and navigate a malformed selection token is dropped and is
\* never fatal: the request succeeds with the result for the remaining tokens.
C9_MalformedTokenIsDropped ==
    (/\ resp.op \in {"get_files", "cgrid_navigate"}
     /\ HasMalformedToken(resp.tags))
    => /\ resp.status = 200 /\ resp.body.success
       /\ resp.op = "get_files" /\ Unpaginated =>
            Range(resp.body.data)
              = MatchSet(file_tags, resp.user_id, WellFormedSelection(resp.tags))
       /\ resp.op = "cgrid_navigate" =>
            resp.body.data.total_matching_files
              = Cardinality(MatchSet(file_tags, resp.user_id,
                                     WellFormedSelection(resp.tags)))

\* C10: a non-empty selection string none of whose tokens resolves to a tag id
\* (only unresolvable codes, blanks or separators) makes the listing return
\* success with an empty file list and a message: never the unfiltered list,
\* never an error status.
C10_ExplicitEmptySelection ==
    (/\ resp.op = "get_files"
     /\ resp.tags # EmptyString
     /\ \A i \in DOMAIN resp.tags : ~IsInt(Strip(resp.tags[i])))
    => /\ resp.status = 200 /\ resp.body.success
       /\ resp.body.data = <<>>
       /\ "message" \in DOMAIN resp.body

\* the ids of the files the listing query selects for a ?tags= string
ListingFor(rows, u, str) ==
    {f.id : f \in ListedFiles(rows, u, ParseTagIds(str).ids)}

\* C11: a selection that holds a tag id naming no tag, or an inactive tag,
\* never fails listing or navigate and matches nothing: the listing is empty,
\* total_matching_files is 0 and the count of every tag outside S is 0, also
\* when rows of file_tags still name the inactive tag.
C11_InactiveOrUnknownIdMatchesNothing ==
    (/\ resp.op \in {"get_files", "cgrid_navigate"}
     /\ WellFormed(resp.tags) /\ DistinctIds(resp.tags)
     /\ SelectionOf(resp.tags) \ ActiveTagIds # {})
    => /\ resp.status = 200 /\ resp.body.success
       /\ resp.op = "get_files" => resp.body.data = <<>>
       /\ resp.op = "cgrid_navigate" =>
            /\ resp.body.data.total_matching_files = 0
            /\ \A t \in ActiveTagIds \ SelectionOf(resp.tags) :
                  resp.body.data.file_count[t] = 0

\* C12: a token list with repeated tag ids gives the results of the list with
\* each id kept once: the same listing, total_matching_files and forward counts.
C12_RepeatedIdsAreDeduplicated ==
    (/\ resp.op \in {"get_files", "cgrid_navigate"}
     /\ resp.status = 200
     /\ WellFormed(resp.tags) /\ ~DistinctIds(resp.tags))
    => /\ resp.op = "get_files" /\ Unpaginated =>
            Range(resp.body.data)
              = MatchSet(file_tags, resp.user_id, SelectionOf(resp.tags))
       /\ resp.op = "cgrid_navigate" =>
            /\ resp.body.data.total_matching_files
                 = Cardinality(MatchSet(file_tags, resp.user_id, SelectionOf(resp.tags)))
            /\ \A t \in ActiveTagIds \ SelectionOf(resp.tags) :
                  resp.body.data.file_count[t]
                    = Cardinality(MatchSet(file_tags, resp.user_id,
                                           SelectionOf(resp.tags) \cup {t}))

\* C13: for selections S1 \subset S2 of distinct tag ids and the same user, every
\* file the listing gives for S2 is in the listing for S1 (the response at hand
\* is the one for S2; the listing for S1 is the one the same table would give).
C13_ListingIsMonotone ==
    (/\ resp.op = "get_files" /\ resp.status = 200 /\ Unpaginated
     /\ WellFormed(resp.tags) /\ DistinctIds(resp.tags))
    => \A s1 \in TagStrings :
          (/\ WellFormed(s1) /\ DistinctIds(s1)
           /\ SelectionOf(s1) \subseteq SelectionOf(resp.tags)
           /\ SelectionOf(s1) # SelectionOf(resp.tags))
          => Range(resp.body.data) \subseteq ListingFor(file_tags, resp.user_id, s1)

\* C13's case: a two-tag selection lists a file, and a non-empty selection
\* inside it lists that file and one more.
C13_Witness ==
    /\ resp.op = "get_files" /\ resp.status = 200 /\ Unpaginated
    /\ WellFormed(resp.tags) /\ DistinctIds(resp.tags)
    /\ Cardinality(SelectionOf(resp.tags)) = 2
    /\ resp.body.data # <<>>
    /\ \E s1 \in TagStrings :
          /\ WellFormed(s1) /\ DistinctIds(s1)
          /\ SelectionOf(s1) # {}
          /\ SelectionOf(s1) \subseteq SelectionOf(resp.tags)
          /\ SelectionOf(s1) # SelectionOf(resp.tags)
          /\ ListingFor(file_tags, resp.user_id, s1) \ Range(resp.body.data) # {}

\* C14: in one navigate response, for every selection (empty or not, however
\* it is written) the file_count of every active tag outside the selection is
\* at most total_matching_files.
C14_ForwardCountAtMostTotal ==
    (/\ resp.op = "cgrid_navigate" /\ resp.status = 200)
    => \A t \in DOMAIN resp.body.data.file_count :
          t \notin Range(resp.body.data.selected_tag_ids)
          => resp.body.data.file_count[t] <= resp.body.data.total_matching_files

\* C14's case: a non-empty selection matched by two files, and a tag outside
\* it that every one of them carries (the count reaches the total).
C14_Witness ==
    /\ resp.op = "cgrid_navigate" /\ resp.status = 200
    /\ resp.body.data.selected_tag_ids # <<>>
    /\ resp.body.data.total_matching_files = 2
    /\ \E t \in DOMAIN resp.body.data.file_count :
          /\ t \notin Range(resp.body.data.selected_tag_ids)
          /\ resp.body.data.file_count[t] = resp.body.data.total_matching_files

\* created_at of the file with id fid
CreatedAt(fid) == (CHOOSE f \in Files : f.id = fid).created_at

\* C15: the listing is ordered newest first by created_at, and files of equal
\* created_at come in ascending id order.
C15_NewestFirstTiesById ==
    (resp.op = "get_files" /\ resp.status = 200)
    => \A i, j \in DOMAIN resp.body.data :
          i < j =>
            \/ CreatedAt(resp.body.data[i]) > CreatedAt(resp.body.data[j])
            \/ /\ CreatedAt(resp.body.data[i]) = CreatedAt(resp.body.data[j])
               /\ resp.body.data[i] < resp.body.data[j]

\* C17: whenever assign_tags answers with a failure (400, 404 or 500), the
\* stored associations are the ones the request found: no delete and no insert
\* of the failed request is committed.
C17_FailureLeavesTableUnchanged ==
    (resp.op = "assign_tags" /\ ~resp.body.success) => file_tags = before

\* the tag ids a request of client c names that exist
OwnSet(c) == Range(conn[c].data.tag_ids) \cap TagIds

\* client c's replace-mode request has been answered with 200
ReplaceDone(c) ==
    conn[c].pc = "done" /\ conn[c].status = 200 /\ conn[c].data.replace

\* C16: replace-mode assignments on one file are not serialized. A call that
\* runs alone leaves exactly its own set (the tags it reads back); two calls
\* that both succeeded leave tags of their two sets only, and (the witness)
\* some interleaving of their statements leaves a set that is neither call's.
C16_ReplaceCallsAreNotSerialized ==
    /\ \A c \in Clients :
          ReplaceDone(c) /\ conn[c].alone => conn[c].tags = OwnSet(c)
    /\ (/\ ReplaceDone(1) /\ ReplaceDone(2)
        /\ conn[1].file_id = conn[2].file_id)
       => TagsOfFile(file_tags, conn[1].file_id) \subseteq OwnSet(1) \cup OwnSet(2)

\* C16's case: both replace calls on the file succeeded and the file's set is
\* neither call's set.
C16_Witness ==
    /\ ReplaceDone(1) /\ ReplaceDone(2)
    /\ conn[1].file_id = conn[2].file_id
    /\ ~conn[1].alone /\ ~conn[2].alone
    /\ TagsOfFile(file_tags, conn[1].file_id) \notin {OwnSet(1), OwnSet(2)}

====
